---- MODULE Spec2Model ----
(***************************************************************************)
(* Model of the error-classification and observability layer of            *)
(* sentry-rs-demo: the actix-web handlers of src/src/main.rs, the          *)
(* conversion From<Error> for HTTPError with its Sentry capture, the       *)
(* Sentry before_send filter and tracing layer configured in init_tracing, *)
(* and the logging middleware of src/src/middleware.rs.                    *)
(*                                                                         *)
(* Each actix worker is a single-threaded executor: a request's future is  *)
(* polled on its worker without interleaving with the other requests of    *)
(* that worker between two await points, while different workers run in    *)
(* parallel.  The only suspension point of a request is the await of the   *)
(* inner service (the payload has not arrived yet); from the moment the    *)
(* inner future is ready the handler, the conversion of its error and the  *)
(* middleware's match arm run in one poll.  A poll that touches the hub    *)
(* more than once (a handler that fails: From<Error>::from) is kept as     *)
(* separate steps, so that polls on different workers interleave, and the  *)
(* worker is held in `running` for the length of the poll; the other polls *)
(* are one step, the match arm of the middleware included.                 *)
(*                                                                         *)
(* The Sentry hub is thread local (Hub::current): one scope stack per      *)
(* worker.  The log sink and the telemetry sink are kept per request, the  *)
(* order of the entries of one request being the order of emission.        *)
(***************************************************************************)
EXTENDS Integers, Sequences, FiniteSets, TLC

\* ---------------------------------------------------------------- bounds
NReq == 2          \* requests in flight
NWorkers == 2      \* actix worker threads
MaxVal == 1        \* request operands x, y range over 0..MaxVal
MaxOperand == 5    \* operands of div on its own range over -MaxOperand..MaxOperand
MaxOffers == 3     \* events offered to the Sentry client on its own

Reqs == 1..NReq
Workers == 1..NWorkers
Vals == 0..MaxVal
Operands == (0 - MaxOperand)..MaxOperand

\* ------------------------------------------------------- program constants
BAD_REQUEST == 400               \* StatusCode::BAD_REQUEST
INTERNAL_SERVER_ERROR == 500     \* StatusCode::INTERNAL_SERVER_ERROR
OK == 200                        \* HttpResponse::Ok()
DefaultStatus == 200             \* as_u64().unwrap_or(200)
ClientLo == 400                  \* (400..500)
ClientHi == 500

\* enum Error
ErrorKinds == {"DivideByZero", "MissingSentryDsn", "Actix", "DotEnvy", "Io"}
\* the kinds no handler of the repository raises by itself
FaultKinds == ErrorKinds \ {"DivideByZero"}
\* failures of the inner service that are not responses (actix_web::Error)
TransportErrors == {"e1", "e2"}

Endpoints == {"status", "add", "sub", "mul", "div"}
CalcEndpoints == Endpoints \ {"status"}

None == <<>>
Some(v) == <<v>>
IsSome(o) == Len(o) = 1
Unwrap(o) == o[1]

VARIABLES
    pc,          \* per request: position of its future
    req,         \* per request: None or Some([ep, worker])
    path,        \* per request: the middleware's local `path`
    herr,        \* per request: None or Some(kind), the Error the operation returned
    http_error,  \* per request: None or Some(HTTPError)
    inner,       \* per request: None or Some(result of the inner service)
    result,      \* per request: None or Some(result the middleware returned)
    hub,         \* per worker: the scope stack of the thread's Sentry hub
    running,     \* per worker: the request being polled, 0 when idle
    log,         \* per request: the log entries it emitted
    offers,      \* per request: the events it offered to Sentry
    div_call     \* None or Some([x, y, res]): a call of div on its own

vars == <<pc, req, path, herr, http_error, inner, result, hub, running, log, offers, div_call>>

\* ------------------------------------------------------------ pure parts

\* i32 arithmetic (wrapping, as in a release build)
I32Max == 2147483647
I32Min == -2147483647 - 1
I32(v) ==
    IF v > I32Max THEN I32Min + (v - I32Max - 1)
    ELSE IF v < I32Min THEN I32Max - (I32Min - v - 1)
    ELSE v

\* #[error("...")] on enum Error
ErrorDisplay(kind) ==
    CASE kind = "DivideByZero" -> "cannot divide by zero"
      [] kind = "MissingSentryDsn" -> "SENRTY_DSN is unset"
      [] OTHER -> kind

\* Display for HTTPError: "{ status_code, source }"
HTTPErrorDisplay(e) == <<e.status_code, ErrorDisplay(e.source)>>

\* classify without its DivideByZero arm
classify_wildcard_only(kind) == INTERNAL_SERVER_ERROR

\* the match of From<Error>::from
classify(kind) ==
    IF kind = "DivideByZero" THEN BAD_REQUEST ELSE INTERNAL_SERVER_ERROR

MkHTTPError(kind) == [status_code |-> classify(kind), source |-> kind]

\* impl ResponseError for HTTPError {}: the trait's default status_code()
ResponseStatusCode(e) == INTERNAL_SERVER_ERROR

\* the trait's default error_response(), with the error kept in the response
ErrorResponse(e) ==
    [status |-> ResponseStatusCode(e),
     body |-> Some(HTTPErrorDisplay(e)),
     error |-> Some([type |-> "HTTPError", status_code |-> e.status_code, source |-> e.source])]

Ok(v) == [tag |-> "Ok", val |-> v]
Err(v) == [tag |-> "Err", val |-> v]

add(x, y) == Ok(I32(x + y))
sub(x, y) == Ok(I32(x - y))
mul(x, y) == Ok(I32(x * y))
div(x, y) == IF y = 0 THEN Err("DivideByZero") ELSE Ok(I32(x + y))

Operation(ep, x, y) ==
    CASE ep = "add" -> add(x, y)
      [] ep = "sub" -> sub(x, y)
      [] ep = "mul" -> mul(x, y)
      [] ep = "div" -> div(x, y)

\* web::scope("/api/v0") and the route attributes
PathOf(ep) ==
    CASE ep = "status" -> "/api/v0/status"
      [] ep = "add" -> "/api/v0/add"
      [] ep = "sub" -> "/api/v0/sub"
      [] ep = "mul" -> "/api/v0/mul"
      [] ep = "div" -> "/api/v0/div"

\* a JSON value of event.extra
U64(n) == [t |-> "u64", n |-> n]
as_u64(v) == IF v.t = "u64" THEN Some(v.n) ELSE None
unwrap_or(o, d) == IF IsSome(o) THEN Unwrap(o) ELSE d

\* a before_send whose range includes its upper bound (400..=500)
before_send_inclusive(event) ==
    IF IsSome(event.status_code)
        THEN LET status_code == unwrap_or(as_u64(Unwrap(event.status_code)), DefaultStatus)
             IN  IF status_code >= ClientLo /\ status_code <= ClientHi
                     THEN None
                     ELSE Some(event)
        ELSE Some(event)

\* ClientOptions.before_send: None drops the event, Some(event) sends it
before_send(event) ==
    IF IsSome(event.status_code)
        THEN LET status_code == unwrap_or(as_u64(Unwrap(event.status_code)), DefaultStatus)
             IN  IF status_code >= ClientLo /\ status_code < ClientHi
                     THEN None
                     ELSE Some(event)
        ELSE Some(event)

\* an event_filter that forwards nothing
event_filter_ignore(level) == "Ignore"

\* an event_filter that forwards every level
event_filter_all(level) == "Event"

\* sentry_layer's event_filter
event_filter(level) == IF level = "ERROR" THEN "Event" ELSE "Ignore"

\* a scope of the hub: its `extra` entry "status_code"
EmptyScope == [status_code |-> None]
TopScope(w) == hub[w][Len(hub[w])]

\* the client's capture: the scope is applied to the event, then before_send
Offer(via, w) ==
    LET event == [via |-> via, status_code |-> TopScope(w).status_code]
    IN  [event |-> event, sent |-> before_send(event)]

\* the entries a tracing event adds to the Sentry sink, through sentry_layer
Forwarded(level, w) ==
    IF event_filter(level) = "Event" THEN <<Offer("log", w)>> ELSE <<>>

RECURSIVE ForwardAll(_, _)
ForwardAll(entries, w) ==
    IF entries = <<>> THEN <<>>
    ELSE Forwarded(entries[1].level, w) \o ForwardAll(Tail(entries), w)

\* a tracing event: its level, who emitted it, and its fields path, message
\* and err (the other fields and the formatting are the log sink's)
LogEntry(level, by, p, msg, err) ==
    [level |-> level, by |-> by, path |-> p, msg |-> msg, err |-> err]

\* the tracing events of a handler before its operation
HandlerEvents(ep) ==
    CASE ep = "add" ->
            <<LogEntry("INFO", "handler", "", "adding two numbers together", None),
              LogEntry("ERROR", "handler", "", "add", None)>>
      [] ep = "sub" ->
            <<LogEntry("INFO", "handler", "", "subtracting a number from another", None)>>
      [] ep = "mul" ->
            <<LogEntry("INFO", "handler", "", "multiplying two numbers", None)>>
      [] ep = "div" ->
            <<LogEntry("INFO", "handler", "", "Dividing a number by another", None)>>

\* responses of the inner service
JsonResponse(v) == [status |-> OK, body |-> Some(v), error |-> None]
StatusResponse == [status |-> OK, body |-> Some("OK"), error |-> None]
PayloadErrorResponse ==
    [status |-> BAD_REQUEST, body |-> None,
     error |-> Some([type |-> "JsonPayloadError", status_code |-> BAD_REQUEST,
                     source |-> "Deserialize"])]

\* an Ok arm that logs every response
OkArmEvents_unconditional(p, res) ==
    <<LogEntry("ERROR", "middleware", p, "", res.error)>>

\* the events the Ok arm of the middleware emits for response res
OkArmEvents(p, res) ==
    IF IsSome(res.error)
        THEN <<LogEntry("ERROR", "middleware", p, "", res.error)>>
        ELSE <<>>

\* an Ok arm that returns a response rebuilt without its error
OkArmResult_rebuild(res) == Ok([res EXCEPT !.error = None])

\* the value the Ok arm returns
OkArmResult(res) == Ok(res)

\* the events the Err arm of the middleware emits for error e
ErrArmEvents(p, e) ==
    <<LogEntry("ERROR", "middleware", p, "Unhandled server error", Some(e))>>

\* an Err arm that answers with a response of its own
ErrArmResult_recover(e) == Ok([status |-> INTERNAL_SERVER_ERROR, body |-> None, error |-> None])

\* the value the Err arm returns
ErrArmResult(e) == Err(e)

\* the match of MiddlewareService::call on the result of the inner service
ArmEvents(p, res) ==
    IF res.tag = "Ok" THEN OkArmEvents(p, res.val) ELSE ErrArmEvents(p, res.val)

ArmResult(res) ==
    IF res.tag = "Ok" THEN OkArmResult(res.val) ELSE ErrArmResult(res.val)

WorkerOf(r) == Unwrap(req[r]).worker
EpOf(r) == Unwrap(req[r]).ep

\* workers are interchangeable: a request takes a worker already in use or
\* the first unused one
UsedWorkers == {Unwrap(req[q]).worker : q \in {q \in Reqs : IsSome(req[q])}}
MayTake(w) == \A v \in Workers : v < w => v \in UsedWorkers

\* ------------------------------------------------------------------ Init
Init ==
    /\ pc = [r \in Reqs |-> "idle"]
    /\ req = [r \in Reqs |-> None]
    /\ path = [r \in Reqs |-> ""]
    /\ herr = [r \in Reqs |-> None]
    /\ http_error = [r \in Reqs |-> None]
    /\ inner = [r \in Reqs |-> None]
    /\ result = [r \in Reqs |-> None]
    /\ hub = [w \in Workers |-> <<EmptyScope>>]
    /\ running = [w \in Workers |-> 0]
    /\ log = [r \in Reqs |-> <<>>]
    /\ offers = [r \in Reqs |-> <<>>]
    /\ div_call = None

\* --------------------------------------------------------------- actions

\* request r emits tracing events on its worker
Emit(r, entries) ==
    /\ log' = [log EXCEPT ![r] = @ \o entries]
    /\ offers' = [offers EXCEPT ![r] = @ \o ForwardAll(entries, WorkerOf(r))]

\* the inner future of r is ready and its worker is free to poll it
CanPoll(r) ==
    /\ pc[r] = "awaiting"
    /\ running[WorkerOf(r)] = 0

\* a middleware whose future stays pending after its match arm
Match_reenter(r, res, pre) ==
    /\ inner' = [inner EXCEPT ![r] = Some(res)]
    /\ Emit(r, pre \o ArmEvents(path[r], res))
    /\ result' = [result EXCEPT ![r] = Some(ArmResult(res))]
    /\ pc' = [pc EXCEPT ![r] = IF res.tag = "Err" THEN "awaiting" ELSE "done"]

\* MiddlewareService::call after the await: the inner service returned res,
\* the handler having emitted the events pre in the same poll
Match(r, res, pre) ==
    /\ inner' = [inner EXCEPT ![r] = Some(res)]
    /\ Emit(r, pre \o ArmEvents(path[r], res))
    /\ result' = [result EXCEPT ![r] = Some(ArmResult(res))]
    /\ pc' = [pc EXCEPT ![r] = "done"]

\* MiddlewareService::call up to the await: path taken, inner future created
Call(r, ep, w) ==
    /\ pc[r] = "idle"
    /\ \A q \in Reqs : q < r => pc[q] # "idle"
    /\ MayTake(w)
    /\ req' = [req EXCEPT ![r] = Some([ep |-> ep, worker |-> w])]
    /\ path' = [path EXCEPT ![r] = PathOf(ep)]
    /\ pc' = [pc EXCEPT ![r] = "awaiting"]
    /\ UNCHANGED <<div_call, herr, http_error, inner, result, hub, running, log, offers>>

\* a middleware that logs the request it drops
Cancel_ghost(r) ==
    /\ pc[r] = "awaiting"
    /\ pc' = [pc EXCEPT ![r] = "cancelled"]
    /\ req' = [req EXCEPT ![r] = None]
    /\ path' = [path EXCEPT ![r] = ""]
    /\ Emit(r, <<LogEntry("ERROR", "middleware", path[r], "cancelled", None)>>)
    /\ UNCHANGED <<div_call, herr, http_error, inner, result, hub, running>>

\* the request is dropped while the middleware awaits the inner service: the
\* future goes, and with it the request, `path` and the inner future
Cancel(r) ==
    /\ pc[r] = "awaiting"
    /\ pc' = [pc EXCEPT ![r] = "cancelled"]
    /\ req' = [req EXCEPT ![r] = None]
    /\ path' = [path EXCEPT ![r] = ""]
    /\ UNCHANGED <<div_call, herr, http_error, inner, result, hub, running, log, offers>>

\* the inner service fails without a response
InnerErr(r, e) ==
    /\ CanPoll(r)
    /\ Match(r, Err(e), <<>>)
    /\ UNCHANGED <<div_call, req, path, herr, http_error, hub, running>>

\* the web::Json extractor rejects the payload: an error response, no handler
ExtractFail(r) ==
    /\ CanPoll(r)
    /\ EpOf(r) \in CalcEndpoints
    /\ Match(r, Ok(PayloadErrorResponse), <<>>)
    /\ UNCHANGED <<div_call, req, path, herr, http_error, hub, running>>

\* GET /status
status(r) ==
    /\ CanPoll(r)
    /\ EpOf(r) = "status"
    /\ Match(r, Ok(StatusResponse), <<>>)
    /\ UNCHANGED <<div_call, req, path, herr, http_error, hub, running>>

\* a handler with the result res of its operation: Ok is the Json response,
\* Err goes through `?`, that is From<Error>::from, on the worker's thread
HandlerResult(r, res, pre) ==
    IF res.tag = "Ok"
        THEN /\ Match(r, Ok(JsonResponse(res.val)), pre)
             /\ UNCHANGED <<herr, running>>
        ELSE /\ Emit(r, pre)
             /\ herr' = [herr EXCEPT ![r] = Some(res.val)]
             /\ pc' = [pc EXCEPT ![r] = "from"]
             /\ running' = [running EXCEPT ![WorkerOf(r)] = r]
             /\ UNCHANGED <<inner, result>>

\* handle_add, handle_sub, handle_mul, handle_div
Handle(r, x, y) ==
    /\ CanPoll(r)
    /\ EpOf(r) \in CalcEndpoints
    /\ HandlerResult(r, Operation(EpOf(r), x, y), HandlerEvents(EpOf(r)))
    /\ UNCHANGED <<div_call, req, path, http_error, hub>>

\* From<Error>::from: the match that builds the HTTPError
From_match(r) ==
    /\ pc[r] = "from"
    /\ http_error' = [http_error EXCEPT ![r] = Some(MkHTTPError(Unwrap(herr[r])))]
    /\ pc' = [pc EXCEPT ![r] = "with_scope"]
    /\ UNCHANGED <<div_call, req, path, herr, inner, result, hub, running, log, offers>>

\* with_scope with a configuration that sets nothing
ScopeEntered_unset(stack, status_code) == Append(stack, stack[Len(stack)])

\* the scope stack after sentry::with_scope pushed a copy of the top scope
\* and ran scope.set_extra("status_code", status_code.as_u16().into()) on it
ScopeEntered(stack, status_code) ==
    Append(stack, [stack[Len(stack)] EXCEPT !.status_code = Some(U64(status_code))])

\* a scope that is configured in place and never dropped
ScopeLeft_leak(stack) == stack

\* the scope stack after with_scope dropped the scope it pushed
ScopeLeft(stack) == SubSeq(stack, 1, Len(stack) - 1)

\* sentry::with_scope: the scope is pushed and configured
with_scope_enter(r) ==
    /\ pc[r] = "with_scope"
    /\ hub' = [hub EXCEPT ![WorkerOf(r)] = ScopeEntered(@, Unwrap(http_error[r]).status_code)]
    /\ pc' = [pc EXCEPT ![r] = "capture"]
    /\ UNCHANGED <<div_call, req, path, herr, http_error, inner, result, running, log, offers>>

\* sentry::capture_error(&http_error)
capture_error(r) ==
    /\ pc[r] = "capture"
    /\ offers' = [offers EXCEPT ![r] = Append(@, Offer("capture", WorkerOf(r)))]
    /\ pc' = [pc EXCEPT ![r] = "scope_exit"]
    /\ UNCHANGED <<div_call, req, path, herr, http_error, inner, result, hub, running, log>>

\* the end of sentry::with_scope; from returns http_error
with_scope_exit(r) ==
    /\ pc[r] = "scope_exit"
    /\ hub' = [hub EXCEPT ![WorkerOf(r)] = ScopeLeft(@)]
    /\ pc' = [pc EXCEPT ![r] = "respond"]
    /\ UNCHANGED <<div_call, req, path, herr, http_error, inner, result, running, log, offers>>

\* a handler error that leaves the inner service as an error, not a response
Respond_raw(r) ==
    /\ pc[r] = "respond"
    /\ Match(r, Err(Unwrap(http_error[r]).source), <<>>)
    /\ running' = [running EXCEPT ![WorkerOf(r)] = 0]
    /\ UNCHANGED <<div_call, req, path, herr, http_error, hub>>

\* the handler returns Err(http_error), actix renders it as a response and
\* the middleware matches on it
Respond(r) ==
    /\ pc[r] = "respond"
    /\ Match(r, Ok(ErrorResponse(Unwrap(http_error[r]))), <<>>)
    /\ running' = [running EXCEPT ![WorkerOf(r)] = 0]
    /\ UNCHANGED <<div_call, req, path, herr, http_error, hub>>

\* a handler whose operation fails with a kind the operations of the
\* repository never return (fault injection: the handler and its `?` are the
\* same, the Error value is not)
HandleFault(r, kind) ==
    /\ CanPoll(r)
    /\ EpOf(r) \in CalcEndpoints
    /\ HandlerResult(r, Err(kind), HandlerEvents(EpOf(r)))
    /\ UNCHANGED <<div_call, req, path, http_error, hub>>

\* a request arrives
Accept == \E r \in Reqs, ep \in Endpoints, w \in Workers : Call(r, ep, w)

\* a worker polls a request, or a request is dropped
Serve ==
    \/ \E r \in Reqs : Cancel(r)
    \/ \E r \in Reqs, e \in TransportErrors : InnerErr(r, e)
    \/ \E r \in Reqs : ExtractFail(r)
    \/ \E r \in Reqs : status(r)
    \/ \E r \in Reqs, x \in Vals, y \in Vals : Handle(r, x, y)
    \/ \E r \in Reqs : From_match(r)
    \/ \E r \in Reqs : with_scope_enter(r)
    \/ \E r \in Reqs : capture_error(r)
    \/ \E r \in Reqs : with_scope_exit(r)
    \/ \E r \in Reqs : Respond(r)

Next == Accept \/ Serve

Spec == Init /\ [][Next]_vars

\* the same program with handlers whose operation may fail with any Error
Fault == \E r \in Reqs, kind \in FaultKinds : HandleFault(r, kind)

NextFault == Next \/ Fault

SpecFault == Init /\ [][NextFault]_vars

\* the fault-injected program serving one request at a time: a request is
\* accepted only when the earlier ones have ended
NoneInFlight == \A q \in Reqs : pc[q] \in {"idle", "done", "cancelled"}

NextFaultSeq == (NoneInFlight /\ Accept) \/ Serve \/ Fault

SpecFaultSeq == Init /\ [][NextFaultSeq]_vars

\* div on its own: the function applied to any pair of operands
DivCall(x, y) ==
    /\ div_call' = Some([x |-> x, y |-> y, res |-> div(x, y)])
    /\ UNCHANGED <<pc, req, path, herr, http_error, inner, result, hub, running, log, offers>>

NextDiv == \E x \in Operands, y \in Operands : DivCall(x, y)

SpecDiv == Init /\ [][NextDiv]_vars

\* the values an event's extra "status_code" may hold: integers around the
\* bounds of the filter, a negative integer, a float and a string
ExtraValues ==
    {U64(n) : n \in {399, 400, 499, 500}}
        \cup {[t |-> "i64", n |-> -400], [t |-> "f64", n |-> 404], [t |-> "str", n |-> 404]}

Events ==
    {[via |-> "capture", status_code |-> sc] : sc \in {None} \cup {Some(v) : v \in ExtraValues}}

\* the Sentry client on its own: any event is captured, before_send decides
CaptureEvent(event) ==
    /\ Len(offers[1]) < MaxOffers
    /\ offers' = [offers EXCEPT ![1] = Append(@, [event |-> event, sent |-> before_send(event)])]
    /\ UNCHANGED <<pc, req, path, herr, http_error, inner, result, hub, running, log, div_call>>

NextFilter == \E event \in Events : CaptureEvent(event)

SpecFilter == Init /\ [][NextFilter]_vars

\* ---------------------------------------------------------------- claims

Done(r) == pc[r] = "done"
\* the handler of r failed with a typed Error (a handled failure)
HandledFailure(r) == IsSome(herr[r])
\* the Error of r went through From<Error>::from
Classified(r) == IsSome(http_error[r])
StatusOf(r) == Unwrap(http_error[r]).status_code
\* the inner service of r failed without a response (an unhandled failure)
Unhandled(r) == IsSome(inner[r]) /\ Unwrap(inner[r]).tag = "Err"
\* the middleware returned a response
Responded(r) == IsSome(result[r]) /\ Unwrap(result[r]).tag = "Ok"
ResponseOf(r) == Unwrap(result[r]).val
\* the handler of r returned a result with no error
Succeeded(r) == Done(r) /\ Responded(r) /\ ~HandledFailure(r) /\ ResponseOf(r).error = None
NOffers(r) == Len(offers[r])
Accepted(r) == {i \in DOMAIN offers[r] : IsSome(offers[r][i].sent)}
MiddlewareLogs(r) == {i \in DOMAIN log[r] : log[r][i].by = "middleware"}
ErrorLogs(r) == {i \in DOMAIN log[r] : log[r][i].level = "ERROR"}

\* C1: the response of a request that ended in a handled failure has the
\* status the error was classified with (400 for a division by zero).
C1_ResponseStatusIsClassified ==
    \A r \in Reqs : (Done(r) /\ HandledFailure(r)) =>
        /\ Responded(r)
        /\ ResponseOf(r).status = StatusOf(r)

\* C2: a request that ends in a handled failure classified 4xx has no event
\* accepted by the sink, by direct capture or by log forwarding, at any time.
C2_NoAcceptedEventFor4xx ==
    \A r \in Reqs : (Classified(r) /\ StatusOf(r) >= 400 /\ StatusOf(r) < 500) =>
        Accepted(r) = {}

\* C3: a request whose handler succeeded made no telemetry offer, whatever
\* the endpoint.
C3_NoOfferOnSuccess ==
    \A r \in Reqs : Succeeded(r) => NOffers(r) = 0

\* C4: a request that ended in a handled failure classified >= 500 made
\* exactly one telemetry offer.
C4_ExactlyOneOfferFor5xx ==
    \A r \in Reqs : (Done(r) /\ Classified(r) /\ StatusOf(r) >= 500) => NOffers(r) = 1

\* C5: under any interleaving of DivideByZero and server-fault requests, the
\* status_code the filter reads for an offer is the one its own request
\* attached, no DivideByZero request has an accepted event, and there are as
\* many 400 (500) responses as DivideByZero (server-fault) requests.
C5_NoBleedAndExactOutcomes ==
    /\ \A r \in Reqs : \A i \in DOMAIN offers[r] :
          IsSome(offers[r][i].event.status_code) =>
              /\ Classified(r)
              /\ offers[r][i].event.status_code = Some(U64(StatusOf(r)))
    /\ \A r \in Reqs : (HandledFailure(r) /\ Unwrap(herr[r]) = "DivideByZero") =>
          Accepted(r) = {}
    /\ LET failed == {r \in Reqs : Done(r) /\ HandledFailure(r)}
       IN  /\ Cardinality({r \in failed : ResponseOf(r).status = 400})
                = Cardinality({r \in failed : Unwrap(herr[r]) = "DivideByZero"})
           /\ Cardinality({r \in failed : ResponseOf(r).status = 500})
                = Cardinality({r \in failed : Unwrap(herr[r]) # "DivideByZero"})

\* C6: when the inner service yields an unhandled failure the middleware
\* returns that same failure, not a response, and the request has exactly one
\* error-level log entry, which has the request's path and the marker
\* "Unhandled server error".
C6_UnhandledPropagatedAndLogged ==
    \A r \in Reqs : (Done(r) /\ Unhandled(r)) =>
        /\ Unwrap(result[r]).tag = "Err"
        /\ Unwrap(result[r]).val = Unwrap(inner[r]).val
        /\ Cardinality(ErrorLogs(r)) = 1
        /\ \A i \in ErrorLogs(r) :
              /\ log[r][i].path = PathOf(EpOf(r))
              /\ log[r][i].msg = "Unhandled server error"
              /\ log[r][i].err = Some(Unwrap(inner[r]).val)

C6_Witness ==
    \E r \in Reqs : Done(r) /\ Unhandled(r) /\ Unwrap(inner[r]).val = "e2"

StatusTable(kind) ==
    CASE kind = "DivideByZero" -> 400
      [] kind \in {"MissingSentryDsn", "DotEnvy"} -> 500
      [] kind = "Actix" -> 500
      [] kind = "Io" -> 500

\* C8: every error kind is classified, DivideByZero as 400 and the
\* configuration, transport and IO kinds as 500; the status is a client
\* fault (4xx) exactly for DivideByZero and a server fault (5xx) otherwise.
C8_ClassifyTable ==
    \A r \in Reqs :
        /\ (HandledFailure(r) /\ pc[r] # "from") => Classified(r)
        /\ Classified(r) =>
              /\ HandledFailure(r)
              /\ Unwrap(http_error[r]).source = Unwrap(herr[r])
              /\ StatusOf(r) = StatusTable(Unwrap(herr[r]))
              /\ (StatusOf(r) \in 400..499) = (Unwrap(herr[r]) = "DivideByZero")
              /\ (StatusOf(r) \in 500..599) = (Unwrap(herr[r]) # "DivideByZero")

C8_Witness ==
    \E r, q \in Reqs :
        /\ Classified(r) /\ Unwrap(herr[r]) = "DivideByZero"
        /\ Classified(q) /\ Unwrap(herr[q]) = "Io"

\* C9: a classified failure is offered to the sink at most once over the
\* lifetime of its request.
C9_AtMostOneOfferPerClassified ==
    \A r \in Reqs : Classified(r) => NOffers(r) <= 1

\* C10 as stated: every request that reached a terminal outcome has exactly
\* one log entry of the middleware.
C10_ExactlyOneMiddlewareLog ==
    \A r \in Reqs : Done(r) => Cardinality(MiddlewareLogs(r)) = 1

\* C10 amended: a request that reached a terminal outcome has exactly one log
\* entry of the middleware when it ended in a classified failure, in an
\* unhandled failure or in any other response that carries an error, and
\* none when its response carries no error (Succeeded); never more than one.
C10_OneMiddlewareLogPerFailure ==
    \A r \in Reqs : Done(r) =>
        Cardinality(MiddlewareLogs(r)) =
            IF Unhandled(r) \/ (Responded(r) /\ IsSome(ResponseOf(r).error)) THEN 1 ELSE 0

C10_Witness ==
    \E r, q \in Reqs :
        /\ Succeeded(r) /\ MiddlewareLogs(r) = {}
        /\ Done(q) /\ Classified(q) /\ Cardinality(MiddlewareLogs(q)) = 1

\* the position of r in the order classify, attach, offer, log
CaptureOffers(r) == {i \in DOMAIN offers[r] : offers[r][i].event.via = "capture"}
LogOffers(r) == {i \in DOMAIN offers[r] : offers[r][i].event.via = "log"}

\* C11: in a request that ends in a handled failure the status is resolved
\* before the metadata is attached, the metadata is attached before the offer
\* is made, and the middleware's error log comes only after the offer.
C11_ClassifyAttachOfferLog ==
    \A r \in Reqs :
        /\ Classified(r) => HandledFailure(r)
        /\ pc[r] \in {"capture", "scope_exit"} =>
              /\ Classified(r)
              /\ TopScope(WorkerOf(r)).status_code = Some(U64(StatusOf(r)))
        /\ pc[r] \in {"from", "with_scope"} => CaptureOffers(r) = {}
        /\ \A i \in CaptureOffers(r) :
              /\ Classified(r)
              /\ offers[r][i].event.status_code = Some(U64(StatusOf(r)))
        /\ (HandledFailure(r) /\ MiddlewareLogs(r) # {}) =>
              /\ Done(r)
              /\ CaptureOffers(r) # {}
              /\ \A i \in CaptureOffers(r) : i < Len(offers[r])
              /\ offers[r][Len(offers[r])].event.via = "log"
              /\ \A i \in MiddlewareLogs(r) : i = Len(log[r])

C11_Witness ==
    \E r \in Reqs : Done(r) /\ Classified(r) /\ MiddlewareLogs(r) # {} /\ CaptureOffers(r) # {}

\* the state of a request in the machine Pending -> {Succeeded,
\* ClassifiedFailed, UnhandledFailed}
Outcome(r) ==
    IF result[r] = None THEN "Pending"
    ELSE IF Unwrap(result[r]).tag = "Err" THEN "UnhandledFailed"
    ELSE IF Classified(r) THEN "ClassifiedFailed"
    ELSE "Succeeded"

C13_HandledFailureIsResponse ==
    \A r \in Reqs : (HandledFailure(r) /\ IsSome(result[r])) =>
        /\ Unwrap(result[r]).tag = "Ok"
        /\ IsSome(ResponseOf(r).error)
        /\ Unwrap(ResponseOf(r).error).source = Unwrap(herr[r])

C13_Witness ==
    \E r \in Reqs : Done(r) /\ HandledFailure(r) /\ Responded(r)

\* C14: a request cancelled while the middleware awaits the inner service
\* has no log entry, no telemetry offer and no result, then and afterwards.
C14_CancelledIsSilent ==
    \A r \in Reqs : pc[r] = "cancelled" =>
        /\ log[r] = <<>>
        /\ offers[r] = <<>>
        /\ result[r] = None
        /\ inner[r] = None

C14_Witness ==
    \E r, q \in Reqs : pc[r] = "cancelled" /\ r < q /\ Done(q) /\ log[q] # <<>>

\* C15: the status_code attached for a classified failure is seen by its one
\* capture only: every other event offered, by any request on any worker,
\* carries no status_code, and no scope outlives the with_scope that pushed it.
C15_MetadataForOneOfferOnly ==
    /\ \A r \in Reqs : \A i \in DOMAIN offers[r] :
          IsSome(offers[r][i].event.status_code) =>
              /\ offers[r][i].event.via = "capture"
              /\ Classified(r)
              /\ offers[r][i].event.status_code = Some(U64(StatusOf(r)))
    /\ \A r \in Reqs : Cardinality(CaptureOffers(r)) <= 1
    /\ \A w \in Workers : running[w] = 0 => hub[w] = <<EmptyScope>>
    /\ \A w \in Workers : Len(hub[w]) <= 2

C15_Witness ==
    \E r, q \in Reqs :
        /\ r # q
        /\ Done(r) /\ Classified(r) /\ NOffers(r) = 2
        /\ IsSome(offers[r][1].event.status_code)
        /\ offers[r][2].event.status_code = None
        /\ IsSome(req[q]) /\ WorkerOf(q) = WorkerOf(r) /\ LogOffers(q) # {}

\* C16: every offer of a request carries the status_code its error was
\* classified with when the filter runs, and an event sent for a missing
\* configuration has status_code = 500.
C16_EveryOfferCarriesStatus ==
    \A r \in Reqs : (Done(r) /\ Classified(r)) =>
        \A i \in DOMAIN offers[r] :
            /\ offers[r][i].event.status_code = Some(U64(StatusOf(r)))
            /\ (Unwrap(herr[r]) = "MissingSentryDsn" /\ IsSome(offers[r][i].sent)) =>
                  offers[r][i].event.status_code = Some(U64(500))

\* the event carries an integer status_code in [400, 500)
CarriesClientStatus(event) ==
    /\ IsSome(event.status_code)
    /\ Unwrap(event.status_code).t \in {"u64", "i64"}
    /\ Unwrap(event.status_code).n >= 400
    /\ Unwrap(event.status_code).n < 500

\* C17: the filter drops an event exactly when it carries an integer
\* status_code in [400, 500); any other event is sent, unaltered.
C17_FilterDropsExactly4xx ==
    \A r \in Reqs : \A i \in DOMAIN offers[r] :
        /\ (offers[r][i].sent = None) = CarriesClientStatus(offers[r][i].event)
        /\ offers[r][i].sent # None => offers[r][i].sent = Some(offers[r][i].event)

C17_Witness ==
    \E i, j, k \in DOMAIN offers[1] :
        /\ offers[1][i].event.status_code = Some(U64(499)) /\ offers[1][i].sent = None
        /\ offers[1][j].event.status_code = Some(U64(500)) /\ offers[1][j].sent # None
        /\ offers[1][k].event.status_code = Some([t |-> "str", n |-> 404]) /\ offers[1][k].sent # None

\* C18: a response of the inner service is returned as it is, with or
\* without an error, and one that carries an error is logged once by the
\* middleware, at error level, with the path of the request.
C18_ResponsePassedThrough ==
    \A r \in Reqs : (Done(r) /\ ~Unhandled(r)) =>
        /\ Unwrap(result[r]).tag = "Ok"
        /\ Unwrap(result[r]).val = Unwrap(inner[r]).val
        /\ IsSome(Unwrap(inner[r]).val.error) =>
              /\ Cardinality(MiddlewareLogs(r)) = 1
              /\ \A i \in MiddlewareLogs(r) :
                    /\ log[r][i].level = "ERROR"
                    /\ log[r][i].path = PathOf(EpOf(r))
                    /\ log[r][i].err = Unwrap(inner[r]).val.error

C18_Witness ==
    \E r, q \in Reqs :
        /\ Done(r) /\ ~Unhandled(r) /\ IsSome(Unwrap(inner[r]).val.error) /\ ~Classified(r)
        /\ Done(q) /\ ~Unhandled(q) /\ Unwrap(inner[q]).val.error = None

\* C19: every error-level log entry of a request, of a handler or of the
\* middleware, is one offer to the sink and no entry of another level is; the
\* forwarded event is sent or dropped by the filter like a captured one.
C19_ErrorLogsForwarded ==
    \A r \in Reqs :
        /\ Cardinality(LogOffers(r)) = Cardinality(ErrorLogs(r))
        /\ \A i \in LogOffers(r) :
              /\ (offers[r][i].sent = None) = CarriesClientStatus(offers[r][i].event)
              /\ offers[r][i].sent # None => offers[r][i].sent = Some(offers[r][i].event)

C19_Witness ==
    \E r \in Reqs :
        /\ Done(r)
        /\ \E i \in DOMAIN log[r] : log[r][i].level = "INFO"
        /\ \E i \in DOMAIN log[r] : log[r][i].level = "ERROR" /\ log[r][i].by = "handler"
        /\ Cardinality(LogOffers(r)) = 1

\* i32 division: the quotient truncated toward zero
Abs(v) == IF v < 0 THEN 0 - v ELSE v
Quotient(x, y) ==
    IF (x < 0) = (y < 0) THEN Abs(x) \div Abs(y) ELSE 0 - (Abs(x) \div Abs(y))

\* C20: div succeeds with the quotient x / y when y # 0 and fails with
\* DivideByZero exactly when y = 0.
C20_DivIsQuotient ==
    IsSome(div_call) =>
        LET c == Unwrap(div_call)
        IN  /\ (c.res.tag = "Err") = (c.y = 0)
            /\ c.res.tag = "Err" => c.res.val = "DivideByZero"
            /\ c.res.tag = "Ok" => c.res.val = Quotient(c.x, c.y)

====
